---- MODULE Spec2Model ----
(***************************************************************************)
(* Model of oxforddict.OxfordDictionary (src/oxforddict/oxfordwrapper.py): *)
(* the client object, its word normalisation (_parseword), its request     *)
(* execution (_request) on a keep-alive http.client connection, and the    *)
(* operations built on them.                                               *)
(*                                                                         *)
(* Text that the code inspects character by character (words, language     *)
(* codes) is a sequence of Unicode code points; text that the code only    *)
(* concatenates (URLs, query strings) is a TLA+ string.                    *)
(***************************************************************************)
EXTENDS Integers, Sequences, FiniteSets, TLC

VARIABLES
    alive,        \* TRUE once a client object has been constructed
    app_key,      \* OxfordDictionary.app_key
    app_id,       \* OxfordDictionary.app_id
    lang,         \* OxfordDictionary.lang
    _base_url,    \* OxfordDictionary._base_url
    _httpsconn,   \* OxfordDictionary._httpsconn (http.client connection)
    call,         \* the last method call: what was sent and how it ended
    scope,        \* position of the caller relative to a `with` block
    exit_exc,     \* exception handed to __exit__, "" when none
    propagated,   \* exception that left the `with` block, "" when none
    word,         \* input of the word-normalisation run
    norm,         \* _parseword(word)
    norm2,        \* _parseword(norm)
    stage         \* progress of the word-normalisation run

vars == <<alive, app_key, app_id, lang, _base_url, _httpsconn, call, scope,
          exit_exc, propagated, word, norm, norm2, stage>>

clientVars == <<alive, app_key, app_id, lang, _base_url, _httpsconn, call,
                scope, exit_exc, propagated>>

fieldVars == <<alive, app_key, app_id, lang, _base_url>>

normVars == <<word, norm, norm2, stage>>

(***************************************************************************)
(* Bounds                                                                  *)
(***************************************************************************)
MaxLen == 3

(***************************************************************************)
(* Python str primitives on code points                                    *)
(***************************************************************************)

\* str.lower() for one character (ASCII and Latin-1 letters; the other
\* characters used here have no lowercase form)
Lower(c) ==
    IF c >= 65 /\ c <= 90 THEN c + 32
    ELSE IF c >= 192 /\ c <= 222 /\ c # 215 THEN c + 32
    ELSE c

\* str.isspace() for one character, as used by str.strip()
IsSpace(c) ==
    \/ c >= 9 /\ c <= 13
    \/ c >= 28 /\ c <= 32
    \/ c \in {133, 160, 5760, 8232, 8233, 8239, 8287, 12288}
    \/ c >= 8192 /\ c <= 8202

\* x.encode('utf-8') for one character
Utf8(c) ==
    IF c < 128 THEN <<c>>
    ELSE IF c < 2048 THEN <<192 + (c \div 64), 128 + (c % 64)>>
    ELSE IF c < 65536
         THEN <<224 + (c \div 4096), 128 + ((c \div 64) % 64), 128 + (c % 64)>>
    ELSE <<240 + (c \div 262144), 128 + ((c \div 4096) % 64),
           128 + ((c \div 64) % 64), 128 + (c % 64)>>

HexDigit(d) == IF d < 10 THEN 48 + d ELSE 87 + d

\* '{:x}'.format(i): lowercase hexadecimal without padding
RECURSIVE Hex(_)
Hex(n) == IF n < 16 THEN <<HexDigit(n)>>
          ELSE Hex(n \div 16) \o <<HexDigit(n % 16)>>

\* ''.join('%{:x}'.format(i) for i in bytes)
RECURSIVE PercentBytes(_)
PercentBytes(bs) ==
    IF bs = <<>> THEN <<>>
    ELSE <<37>> \o Hex(Head(bs)) \o PercentBytes(Tail(bs))

\* the condition `x > 'z'` under which _parseword escapes a character
NeedsEscapeAlsoPercent(c) == c > 122 \/ c = 37

NeedsEscape(c) == c > 122

\* first statement of _parseword: escape every character above 'z'
RECURSIVE EscapeAll(_)
EscapeAll(w) ==
    IF w = <<>> THEN <<>>
    ELSE (IF NeedsEscape(Head(w)) THEN PercentBytes(Utf8(Head(w)))
          ELSE <<Head(w)>>) \o EscapeAll(Tail(w))

RECURSIVE LStrip(_)
LStrip(w) == IF w # <<>> /\ IsSpace(Head(w)) THEN LStrip(Tail(w)) ELSE w

RECURSIVE RStrip(_)
RStrip(w) == IF w # <<>> /\ IsSpace(w[Len(w)])
             THEN RStrip(SubSeq(w, 1, Len(w) - 1)) ELSE w

\* str.strip()
Strip(w) == RStrip(LStrip(w))

\* str.lower()
LowerStr(w) == [i \in 1..Len(w) |-> Lower(w[i])]

\* str.replace(' ', '_')
ReplaceSpaces(w) == [i \in 1..Len(w) |-> IF w[i] = 32 THEN 95 ELSE w[i]]

\* second statement of _parseword: word.strip().lower().replace(' ', '_')
_parseword(w) == ReplaceSpaces(LowerStr(Strip(EscapeAll(w))))

(***************************************************************************)
(* Word-normalisation runs: _parseword applied to every word over Alphabet *)
(* of at most MaxLen characters, and applied again to its own result.      *)
(***************************************************************************)

\* tab, space, '%', 'A', '_', 'a', 'z', '{', '~', NBSP, 'É', 'é', '€'
Alphabet == {9, 32, 37, 65, 95, 97, 122, 123, 126, 160, 201, 233, 8364}

RECURSIVE WordsUpTo(_)
WordsUpTo(n) ==
    IF n = 0 THEN {<<>>}
    ELSE LET shorter == WordsUpTo(n - 1)
         IN shorter \cup {Append(w, c) : w \in shorter, c \in Alphabet}

(***************************************************************************)
(* Conversion of a word (code points up to 'z', as _parseword returns     *)
(* them) to the text that is spliced into the URL.                         *)
(***************************************************************************)

\* the characters ' ' .. '_' and 'a' .. 'z' in code-point order (the grave
\* accent, 96, is not expressible in a string here; no word contains it)
Printable ==
   <<
      " ", "!", "\"", "#", "$", "%", "&", "'", "(", ")", "*", "+", ",",
      "-", ".", "/", "0", "1", "2", "3", "4", "5", "6", "7", "8", "9",
      ":", ";", "<", "=", ">", "?", "@", "A", "B", "C", "D", "E", "F",
      "G", "H", "I", "J", "K", "L", "M", "N", "O", "P", "Q", "R", "S",
      "T", "U", "V", "W", "X", "Y", "Z", "[", "\\", "]", "^", "_",
      "a", "b", "c", "d", "e", "f", "g", "h", "i", "j", "k", "l", "m",
      "n", "o", "p", "q", "r", "s", "t", "u", "v", "w", "x", "y", "z"
   >>

Chr(c) == IF c = 9 THEN "\t"
          ELSE IF c < 96 THEN Printable[c - 31]
          ELSE Printable[c - 32]

RECURSIVE Str(_)
Str(w) == IF w = <<>> THEN "" ELSE Chr(Head(w)) \o Str(Tail(w))


RECURSIVE Join(_, _)
\* sep.join(parts)
Join(sep, parts) ==
    IF parts = <<>> THEN ""
    ELSE IF Len(parts) = 1 THEN parts[1]
    ELSE parts[1] \o sep \o Join(sep, Tail(parts))

(***************************************************************************)
(* Python values passed as arguments: None, bool, int, str                 *)
(***************************************************************************)
PyNone == [t |-> "None"]

PyBool(b) == [t |-> "bool", v |-> b]

PyInt(n) == [t |-> "int", v |-> n]

PyStr(s) == [t |-> "str", v |-> s]

\* truth value of `if x`
Truthy(x) ==
    CASE x.t = "None" -> FALSE
      [] x.t = "bool" -> x.v
      [] x.t = "int"  -> x.v # 0
      [] x.t = "str"  -> x.v # ""

\* "%s" % x
Fmt(x) ==
    CASE x.t = "None" -> "None"
      [] x.t = "bool" -> (IF x.v THEN "True" ELSE "False")
      [] x.t = "int"  -> ToString(x.v)
      [] x.t = "str"  -> x.v

(***************************************************************************)
(* json.loads on a tokenised body: a string, a list of strings or an       *)
(* object with string members; anything else is a JSONDecodeError.         *)
(***************************************************************************)
Punct(p) == [tok |-> p, s |-> ""]

StrTok(s) == [tok |-> "str", s |-> s]

JsonError == [t |-> "JSONDecodeError"]

RECURSIVE ParseElements(_)
\* the elements of a list, after '[': a sequence of strings or JsonError
ParseElements(ts) ==
    IF Len(ts) = 1 /\ ts[1].tok = "str" THEN [t |-> "ok", v |-> <<ts[1].s>>]
    ELSE IF Len(ts) >= 3 /\ ts[1].tok = "str" /\ ts[2].tok = ","
    THEN LET rest == ParseElements(SubSeq(ts, 3, Len(ts)))
         IN IF rest.t = "ok"
            THEN [t |-> "ok", v |-> <<ts[1].s>> \o rest.v]
            ELSE JsonError
    ELSE JsonError

RECURSIVE ParseMembers(_)
\* the members of an object, after '{': a sequence of <<key, value>>
ParseMembers(ts) ==
    IF Len(ts) >= 3 /\ ts[1].tok = "str" /\ ts[2].tok = ":"
       /\ ts[3].tok = "str"
    THEN IF Len(ts) = 3 THEN [t |-> "ok", v |-> <<<<ts[1].s, ts[3].s>>>>]
         ELSE IF Len(ts) >= 5 /\ ts[4].tok = ","
         THEN LET rest == ParseMembers(SubSeq(ts, 5, Len(ts)))
              IN IF rest.t = "ok"
                 THEN [t |-> "ok", v |-> <<<<ts[1].s, ts[3].s>>>> \o rest.v]
                 ELSE JsonError
         ELSE JsonError
    ELSE JsonError

\* dict built from members in order: a later duplicate key wins
DictOf(ms) ==
    [k \in {ms[i][1] : i \in 1..Len(ms)} |->
        LET last == CHOOSE i \in 1..Len(ms) :
                        /\ ms[i][1] = k
                        /\ \A j \in 1..Len(ms) : ms[j][1] = k => j <= i
        IN ms[last][2]]

json_loads(ts) ==
    IF Len(ts) = 1 /\ ts[1].tok = "str" THEN [t |-> "str", v |-> ts[1].s]
    ELSE IF Len(ts) >= 2 /\ ts[1].tok = "[" /\ ts[Len(ts)].tok = "]"
    THEN IF Len(ts) = 2 THEN [t |-> "list", v |-> <<>>]
         ELSE LET es == ParseElements(SubSeq(ts, 2, Len(ts) - 1))
              IN IF es.t = "ok" THEN [t |-> "list", v |-> es.v] ELSE JsonError
    ELSE IF Len(ts) >= 2 /\ ts[1].tok = "{" /\ ts[Len(ts)].tok = "}"
    THEN IF Len(ts) = 2 THEN [t |-> "dict", v |-> <<>>]
         ELSE LET ms == ParseMembers(SubSeq(ts, 2, Len(ts) - 1))
              IN IF ms.t = "ok" THEN [t |-> "dict", v |-> DictOf(ms.v)]
                 ELSE JsonError
    ELSE JsonError

(***************************************************************************)
(* http.client.HTTPSConnection as the client uses it: the socket, the      *)
(* request state and the response object the connection still remembers.   *)
(***************************************************************************)

\* http.client.HTTPSConnection("od-api.oxforddictionaries.com")
NewConnection == [sock |-> "closed", state |-> "Idle", response |-> "none"]

\* before construction the slot is not set
NoConnection == [sock |-> "unset", state |-> "unset", response |-> "unset"]

\* HTTPConnection.request: refused unless the connection is idle
CanSendRequest(conn) == conn.state = "Idle"

\* HTTPConnection.request: connects if needed and sends the request
ConnRequest(conn) == [conn EXCEPT !.sock = "open", !.state = "Request-sent"]

\* HTTPConnection.getresponse: refused while an earlier response is unread
ResponseReady(conn) == conn.state = "Request-sent" /\ conn.response = "none"

\* HTTPConnection.getresponse: a keep-alive response is remembered until it
\* has been read; a closing one takes the socket with it
ConnGetResponse(conn, keepalive) ==
    IF keepalive
    THEN [conn EXCEPT !.state = "Idle", !.response = "unread"]
    ELSE [sock |-> "closed", state |-> "Idle", response |-> "none"]

\* HTTPResponse.read(): the whole body is read and the response closes
ResponseRead(conn) == [conn EXCEPT !.response = "none"]

\* HTTPConnection.close()
ConnClose(conn) == [sock |-> "closed", state |-> "Idle", response |-> "none"]

(***************************************************************************)
(* The record of a method call: the request it put on the wire, the        *)
(* response it got and the way it ended.                                   *)
(***************************************************************************)
NoValue == [t |-> "nothing"]

NoCall ==
    [op |-> "", input |-> <<>>, sent |-> FALSE, category |-> "",
     language |-> "", path |-> <<>>, arguments |-> "",
     headers |-> [app_id |-> "", app_key |-> ""],
     status |-> 0, body |-> <<>>, keepalive |-> FALSE, read |-> FALSE,
     kind |-> "none", exc |-> "", code |-> 0, value |-> NoValue]

\* a call that returns without touching the connection
Returns(op, input, value) ==
    [NoCall EXCEPT !.op = op, !.input = input, !.kind = "return",
                   !.value = value]

\* a call that raises before touching the connection
Raises(op, input, exc, code) ==
    [NoCall EXCEPT !.op = op, !.input = input, !.kind = "raise",
                   !.exc = exc, !.code = code]

(***************************************************************************)
(* setlang                                                                 *)
(***************************************************************************)
SupportedLanguages ==
    {"en", "es", "ms", "sw", "tn", "nso", "lv", "id", "ur", "zu", "ro", "hi"}

\* the membership test of setlang, on lang.lower()
SetlangAccepts(l) == Str(LowerStr(l)) \in SupportedLanguages

\* self.lang = lang
StoredLang(l) == Str(l)

\* self._base_url = ...
BaseUrl == "https://od-api.oxforddictionaries.com:443/api/v1"

(***************************************************************************)
(* _request                                                                *)
(***************************************************************************)

\* the status branches with the upper end of the 5xx range left out
RaisedForShortRange(status) ==
    IF status # 200
    THEN IF status = 403 THEN "AuthenticationError"
         ELSE IF status = 404 THEN "WordNotFoundException"
         ELSE IF status = 400 THEN "BadRequestException"
         ELSE IF 500 <= status /\ status < 504 THEN "ServiceUnavailableError"
         ELSE ""
    ELSE ""

\* the status branches of _request: the exception raised, "" when none is
RaisedFor(status) ==
    IF status # 200
    THEN IF status = 403 THEN "AuthenticationError"
         ELSE IF status = 404 THEN "WordNotFoundException"
         ELSE IF status = 400 THEN "BadRequestException"
         ELSE IF 500 <= status /\ status <= 504 THEN "ServiceUnavailableError"
         ELSE ""
    ELSE ""

\* the language segment taken from the default instead of the client
RequestLanguageDefault(set_lang) ==
    IF set_lang.t = "None" THEN "en" ELSE set_lang.v

\* if set_lang is None: set_lang = self.lang
RequestLanguage(set_lang) ==
    IF set_lang.t = "None" THEN lang ELSE set_lang.v

\* the URL handed to HTTPConnection.request for a recorded call
RequestUrl(c) ==
    Join("/", <<_base_url, c.category, c.language>> \o c.path) \o c.arguments

\* _request(*args, category, arguments, set_lang) answered by response rsp:
\* the connection and the call record it leaves
_request(op, input, args, category, arguments, set_lang, rsp) ==
    LET sl  == RequestLanguage(set_lang)
        req == [NoCall EXCEPT !.op = op, !.input = input,
                              !.category = category, !.language = sl,
                              !.path = args, !.arguments = arguments,
                              !.headers = [app_id |-> app_id,
                                           app_key |-> app_key]]
    IN  IF ~CanSendRequest(_httpsconn)
        THEN [conn |-> _httpsconn,
              call |-> [req EXCEPT !.kind = "raise",
                                   !.exc = "CannotSendRequest"]]
        ELSE
        LET c1 == ConnRequest(_httpsconn)
        IN  IF ~ResponseReady(c1)
            THEN [conn |-> c1,
                  call |-> [req EXCEPT !.sent = TRUE, !.kind = "raise",
                                       !.exc = "ResponseNotReady"]]
            ELSE
            LET c2  == ConnGetResponse(c1, rsp.keepalive)
                got == [req EXCEPT !.sent = TRUE, !.status = rsp.status,
                                   !.body = rsp.body,
                                   !.keepalive = rsp.keepalive]
            IN  IF RaisedFor(rsp.status) # ""
                THEN [conn |-> c2,
                      call |-> [got EXCEPT !.kind = "raise",
                                           !.exc = RaisedFor(rsp.status),
                                           !.code = rsp.status]]
                ELSE
                LET c3 == ResponseRead(c2)
                    v  == json_loads(rsp.body)
                IN  IF v.t = "JSONDecodeError"
                    THEN [conn |-> c3,
                          call |-> [got EXCEPT !.read = TRUE,
                                               !.kind = "raise",
                                               !.exc = "JSONDecodeError"]]
                    ELSE [conn |-> c3,
                          call |-> [got EXCEPT !.read = TRUE,
                                               !.kind = "return",
                                               !.value = v]]

(***************************************************************************)
(* Arguments shaped by the operations                                      *)
(***************************************************************************)

\* thesaurus with the synonyms flag tested first
ThesaurusOpSynonymsFirst(antonyms, synonyms) ==
    IF synonyms THEN "synonyms"
    ELSE IF antonyms THEN "antonyms"
    ELSE "antonyms;synonyms"

\* the if/elif/else of thesaurus
ThesaurusOp(antonyms, synonyms) ==
    IF antonyms THEN "antonyms"
    ELSE IF synonyms THEN "synonyms"
    ELSE "antonyms;synonyms"

\* bool(prefix).lower() is evaluated when prefix is truthy: bool has no
\* attribute lower
SearchRaises(prefix) == Truthy(prefix)

\* "cat", "Ice Cream"
Queries == {<<99, 97, 116>>, <<73, 99, 101, 32, 67, 114, 101, 97, 109>>}

\* self._parseword(query) of each input query, as spliced into the URL
ParsedQuery == [q \in Queries |-> Str(_parseword(q))]

\* the query string of search, when building it does not raise
SearchArguments(query, regions, limit, offset) ==
    "?q=" \o ParsedQuery[query]
    \o (IF Truthy(regions) THEN "&regions=" \o Fmt(regions) ELSE "")
    \o (IF Truthy(limit) THEN "&limit=" \o Fmt(limit) ELSE "")
    \o (IF Truthy(offset) THEN "&offset=" \o Fmt(offset) ELSE "")

RECURSIVE KeyValues(_)
\* ["%s=%s" % (k, v) for k, v in advanced_params.items()]
KeyValues(params) ==
    IF params = <<>> THEN <<>>
    ELSE <<params[1][1] \o "=" \o Fmt(params[1][2])>> \o KeyValues(Tail(params))

\* the query string of wordlist
WordlistArguments(params) == "?" \o Join("&", KeyValues(params))

\* the result of __exit__: None without an exception, False with one
ExitResult(exc_type) ==
    IF exc_type = "" THEN PyNone ELSE PyBool(FALSE)

\* __exit__ without the close
ExitConnectionKept(conn) == conn

\* the connection after __exit__
ExitConnection(conn) == ConnClose(conn)

(***************************************************************************)
(* Inputs                                                                  *)
(***************************************************************************)

\* "  Cat ", "Ice café"
Words == {<<32, 32, 67, 97, 116, 32>>,
          <<73, 99, 101, 32, 99, 97, 102, 233>>}

\* "en", "EN", "xx", "", "eng"
LangInputs == {<<101, 110>>, <<69, 78>>, <<120, 120>>, <<>>,
               <<101, 110, 103>>}

Keys == {"key"}

Ids == {"id"}

\* self._parseword(word) of each input word, as spliced into the URL
ParsedWord == [w \in Words |-> Str(_parseword(w))]

FilterArgs == {<<>>, <<"examples", "regions=us">>}

TargetLangs == {"es"}

AdvancedParams == {<<<<"limit", PyInt(10)>>>>,
                   <<<<"exact", PyBool(TRUE)>>, <<"prefix", PyStr("ca")>>>>}

\* search(query, prefix, regions, limit, offset): search("cat") with the
\* defaults, search("cat", limit=10), a call with every option set, a call
\* with every option falsy, and search("cat", prefix=True)
SearchInputs ==
    LET cat == CHOOSE q \in Queries : Len(q) = 3
        ice == CHOOSE q \in Queries : Len(q) = 9
        in(q, p, r, l, o) == [query |-> q, prefix |-> p, regions |-> r,
                              limit |-> l, offset |-> o]
    IN  {in(cat, PyBool(FALSE), PyNone, PyInt(5000), PyNone),
         in(cat, PyBool(FALSE), PyNone, PyInt(10), PyNone),
         in(ice, PyBool(FALSE), PyStr("us"), PyInt(10), PyInt(20)),
         in(ice, PyBool(FALSE), PyStr(""), PyInt(0), PyInt(0)),
         in(cat, PyBool(TRUE), PyNone, PyInt(5000), PyNone),
         in(cat, PyStr("yes"), PyStr("us"), PyInt(10), PyInt(20))}

Statuses == {200, 301, 400, 401, 403, 404, 500, 504, 505}

\* {"id":"cat"}, ["cat","cats"], and the truncated {"id"
Bodies ==
    {<<Punct("{"), StrTok("id"), Punct(":"), StrTok("cat"), Punct("}")>>,
     <<Punct("["), StrTok("cat"), Punct(","), StrTok("cats"), Punct("]")>>,
     <<Punct("{"), StrTok("id")>>}

\* {"error":"no"}, the body the service sends with an error status
ErrorBody ==
    <<Punct("{"), StrTok("error"), Punct(":"), StrTok("no"), Punct("}")>>

\* the responses of the service: a success with any body, any other status
\* with the error body; each either keeps the connection alive or closes it
Responses ==
    [status : {200}, body : Bodies, keepalive : BOOLEAN]
    \cup [status : Statuses \ {200}, body : {ErrorBody},
          keepalive : BOOLEAN]

StubNames == {"utility_filters", "utility_lexicalcategories",
              "utility_registers", "utility_domains", "utility_regions",
              "utility_grammatiocalFeatures"}

\* an exception raised by the body of a `with` block itself
BodyExceptions == {"KeyError"}

(***************************************************************************)
(* Actions                                                                 *)
(***************************************************************************)
Init ==
    /\ alive = FALSE
    /\ app_key = ""
    /\ app_id = ""
    /\ lang = ""
    /\ _base_url = ""
    /\ _httpsconn = NoConnection
    /\ call = NoCall
    /\ scope = "outside"
    /\ exit_exc = ""
    /\ propagated = ""
    /\ word = <<>>
    /\ norm = <<>>
    /\ norm2 = <<>>
    /\ stage = "idle"

\* the caller makes a call: a block left earlier is behind it
CallerMoves ==
    /\ scope' = IF scope = "exited" THEN "outside" ELSE scope
    /\ exit_exc' = IF scope = "exited" THEN "" ELSE exit_exc
    /\ propagated' = IF scope = "exited" THEN "" ELSE propagated

\* OxfordDictionary(app_key, app_id, lang)
Construct(key, id, l) ==
    /\ scope # "inside"
    /\ IF SetlangAccepts(l)
       THEN /\ alive' = TRUE
            /\ app_key' = key
            /\ app_id' = id
            /\ lang' = StoredLang(l)
            /\ _base_url' = BaseUrl
            /\ _httpsconn' = NewConnection
            /\ call' = Returns("__init__", [lang |-> l], PyNone)
       ELSE /\ UNCHANGED <<fieldVars, _httpsconn>>
            /\ call' = Raises("__init__", [lang |-> l],
                              "UnsupportedLanguageException", 0)
    /\ CallerMoves
    /\ UNCHANGED normVars

\* setlang(lang)
SetLang(l) ==
    /\ alive
    /\ IF SetlangAccepts(l)
       THEN /\ lang' = StoredLang(l)
            /\ _base_url' = BaseUrl
            /\ call' = Returns("setlang", [lang |-> l], PyNone)
       ELSE /\ UNCHANGED <<lang, _base_url>>
            /\ call' = Raises("setlang", [lang |-> l],
                              "UnsupportedLanguageException", 0)
    /\ UNCHANGED <<alive, app_key, app_id, _httpsconn>>
    /\ CallerMoves
    /\ UNCHANGED normVars

\* a method that ends in _request
Requests(r) ==
    /\ _httpsconn' = r.conn
    /\ call' = r.call
    /\ UNCHANGED fieldVars
    /\ CallerMoves
    /\ UNCHANGED normVars

\* a method that ends without _request
Locally(c) ==
    /\ call' = c
    /\ UNCHANGED <<fieldVars, _httpsconn>>
    /\ CallerMoves
    /\ UNCHANGED normVars

Entries(w, args, rsp) ==
    /\ alive
    /\ Requests(_request("entries", [word |-> w, args |-> args],
                         <<ParsedWord[w]>> \o args, "entries", "",
                         PyNone, rsp))

Lemmatron(w, filters, rsp) ==
    /\ alive
    /\ Requests(_request("lemmatron", [word |-> w, args |-> filters],
                         <<ParsedWord[w]>> \o filters, "inflections", "",
                         PyNone, rsp))

Translation(w, target_lang, rsp) ==
    /\ alive
    /\ Requests(_request("translation",
                         [word |-> w, target_lang |-> target_lang],
                         <<ParsedWord[w],
                           "translations=" \o target_lang>>,
                         "entries", "", PyNone, rsp))

Wordlist(filters, advanced_params, rsp) ==
    /\ alive
    /\ Requests(_request("wordlist",
                         [args |-> filters, params |-> advanced_params],
                         filters, "wordlist",
                         WordlistArguments(advanced_params), PyNone, rsp))

Thesaurus(w, antonyms, synonyms, rsp) ==
    /\ alive
    /\ Requests(_request("thesaurus",
                         [word |-> w, antonyms |-> antonyms,
                          synonyms |-> synonyms],
                         <<ParsedWord[w],
                           ThesaurusOp(antonyms, synonyms)>>,
                         "entries", "", PyNone, rsp))

Search(input, rsp) ==
    /\ alive
    /\ IF SearchRaises(input.prefix)
       THEN Locally(Raises("search", input, "AttributeError", 0))
       ELSE Requests(_request("search", input, <<>>, "search",
                              SearchArguments(input.query, input.regions,
                                              input.limit, input.offset),
                              PyNone, rsp))

Sentences(w, rsp) ==
    /\ alive
    /\ Requests(_request("sentences", [word |-> w],
                         <<ParsedWord[w], "sentences">>, "entries", "",
                         PyNone, rsp))

UtilityLanguages(rsp) ==
    /\ alive
    /\ Requests(_request("utility_languages", <<>>, <<>>, "languages", "",
                         PyStr(""), rsp))

\* the utility methods whose body is `pass`
UtilityStub(name) ==
    /\ alive
    /\ Locally(Returns(name, <<>>, PyNone))

\* with client: ...   (__enter__ returns the client)
Enter ==
    /\ alive
    /\ scope # "inside"
    /\ scope' = "inside"
    /\ exit_exc' = ""
    /\ propagated' = ""
    /\ call' = Returns("__enter__", <<>>, PyNone)
    /\ UNCHANGED <<fieldVars, _httpsconn>>
    /\ UNCHANGED normVars

\* the end of the with block: __exit__(exc_type, ...), with exc_type the
\* exception that is leaving the block, "" when the block ends normally
Exit(exc_type) ==
    /\ scope = "inside"
    /\ \/ exc_type = ""
       \/ exc_type \in BodyExceptions
       \/ call.kind = "raise" /\ exc_type = call.exc
    /\ _httpsconn' = ExitConnection(_httpsconn)
    /\ scope' = "exited"
    /\ exit_exc' = exc_type
    /\ propagated' = IF Truthy(ExitResult(exc_type)) THEN "" ELSE exc_type
    /\ call' = Returns("__exit__", [exc_type |-> exc_type],
                       ExitResult(exc_type))
    /\ UNCHANGED fieldVars
    /\ UNCHANGED normVars

Next ==
    \/ \E key \in Keys, id \in Ids, l \in LangInputs : Construct(key, id, l)
    \/ \E l \in LangInputs : SetLang(l)
    \/ \E w \in Words, args \in FilterArgs, rsp \in Responses :
          Entries(w, args, rsp)
    \/ \E w \in Words, args \in FilterArgs, rsp \in Responses :
          Lemmatron(w, args, rsp)
    \/ \E w \in Words, t \in TargetLangs, rsp \in Responses :
          Translation(w, t, rsp)
    \/ \E args \in FilterArgs, ps \in AdvancedParams, rsp \in Responses :
          Wordlist(args, ps, rsp)
    \/ \E w \in Words, a \in BOOLEAN, sy \in BOOLEAN, rsp \in Responses :
          Thesaurus(w, a, sy, rsp)
    \/ \E input \in SearchInputs, rsp \in Responses : Search(input, rsp)
    \/ \E w \in Words, rsp \in Responses : Sentences(w, rsp)
    \/ \E rsp \in Responses : UtilityLanguages(rsp)
    \/ \E name \in StubNames : UtilityStub(name)
    \/ Enter
    \/ \E e \in BodyExceptions \cup {"", call.exc} : Exit(e)

Spec == Init /\ [][Next]_vars

(***************************************************************************)
(* Word-normalisation runs                                                 *)
(***************************************************************************)
InitNorm ==
    /\ alive = FALSE
    /\ app_key = ""
    /\ app_id = ""
    /\ lang = ""
    /\ _base_url = ""
    /\ _httpsconn = NoConnection
    /\ call = NoCall
    /\ scope = "outside"
    /\ exit_exc = ""
    /\ propagated = ""
    /\ word \in WordsUpTo(MaxLen)
    /\ norm = <<>>
    /\ norm2 = <<>>
    /\ stage = "input"

\* norm = _parseword(word)
Parse ==
    /\ stage = "input"
    /\ norm' = _parseword(word)
    /\ stage' = "parsed"
    /\ UNCHANGED <<word, norm2>>
    /\ UNCHANGED clientVars

\* norm2 = _parseword(norm)
Reparse ==
    /\ stage = "parsed"
    /\ norm2' = _parseword(norm)
    /\ stage' = "reparsed"
    /\ UNCHANGED <<word, norm>>
    /\ UNCHANGED clientVars

NextNorm == Parse \/ Reparse

SpecNorm == InitNorm /\ [][NextNorm]_vars

(***************************************************************************)
(* Properties                                                              *)
(***************************************************************************)
ApiOps == {"entries", "lemmatron", "translation", "wordlist", "thesaurus",
           "search", "sentences", "utility_languages"}

ApiErrors == {"BadRequestException", "AuthenticationError",
              "WordNotFoundException", "ServiceUnavailableError"}

Decodes(body) == json_loads(body).t # "JSONDecodeError"

\* the call ended in exception exc carrying its status, body unread
EndedIn(c, exc) ==
    c.kind = "raise" /\ c.exc = exc /\ c.code = c.status /\ ~c.read
    /\ c.value = NoValue

\* C1: whenever an operation got a response, its status alone decides the
\* outcome: 200 returns the decoded JSON body; 400, 403, 404 and 500..504
\* raise BadRequest, Authentication, WordNotFound and ServiceUnavailable,
\* and in those four cases the body is neither read nor decoded.
C1_StatusDecidesOutcome ==
    (call.op \in ApiOps /\ call.status # 0) =>
        /\ (call.status = 200 /\ Decodes(call.body)) =>
               /\ call.kind = "return"
               /\ call.read
               /\ call.value = json_loads(call.body)
        /\ call.status = 400 => EndedIn(call, "BadRequestException")
        /\ call.status = 403 => EndedIn(call, "AuthenticationError")
        /\ call.status = 404 => EndedIn(call, "WordNotFoundException")
        /\ call.status \in 500..504 =>
               EndedIn(call, "ServiceUnavailableError")

C1_Witness ==
    /\ call.op = "lemmatron"
    /\ call.status = 404
    /\ call.exc = "WordNotFoundException"
    /\ ~call.read

\* C2: a response whose status is none of 200, 400, 403, 404, 500..504
\* makes the operation fail: nothing is returned and the body is not
\* decoded as a payload.
C2_UnmappedStatusFails ==
    (call.op \in ApiOps /\ call.status # 0
     /\ call.status \notin ({200, 400, 403, 404} \cup (500..504))) =>
        /\ call.kind = "raise"
        /\ call.value = NoValue

\* C3: construction and setlang accept a language exactly when its
\* lowercase form is supported, fail with UnsupportedLanguage otherwise,
\* and the stored language is always a lowercase member of the set.
C3_StoredLanguageLowercase ==
    /\ call.op \in {"__init__", "setlang"} =>
           /\ call.kind = "return" <=>
                  Str(LowerStr(call.input.lang)) \in SupportedLanguages
           /\ call.kind = "raise" =>
                  call.exc = "UnsupportedLanguageException"
    /\ alive => lang \in SupportedLanguages

\* C4: once the with block has been left, normally or by an exception, the
\* connection is closed and the exception that caused the exit has reached
\* the caller.
C4_ExitReleasesConnection ==
    scope = "exited" =>
        /\ _httpsconn.sock = "closed"
        /\ _httpsconn.response = "none"
        /\ propagated = exit_exc

C4_Witness ==
    /\ scope = "exited"
    /\ exit_exc = "WordNotFoundException"
    /\ propagated = "WordNotFoundException"

\* the query string the search claim describes
ClaimedSearchArguments(input) ==
    "?q=" \o ParsedQuery[input.query]
    \o (IF Truthy(input.prefix) THEN "&prefix=true" ELSE "")
    \o (IF Truthy(input.regions) THEN "&regions=" \o Fmt(input.regions)
        ELSE "")
    \o (IF Truthy(input.limit) THEN "&limit=" \o Fmt(input.limit) ELSE "")
    \o (IF Truthy(input.offset) THEN "&offset=" \o Fmt(input.offset)
        ELSE "")

\* C5: on a usable connection every search call issues one GET with
\* category "search", no path segment and the query string "?q=<query>"
\* followed by &prefix=true, &regions=, &limit=, &offset=, each present
\* exactly when its argument is truthy.
C5_SearchQueryString ==
    (call.op = "search" /\ call.exc # "CannotSendRequest") =>
        /\ call.sent
        /\ call.category = "search"
        /\ call.path = <<>>
        /\ call.arguments = ClaimedSearchArguments(call.input)

RECURSIVE RefEscape(_)
\* percent-encoding of the non-ASCII characters only
RefEscape(w) ==
    IF w = <<>> THEN <<>>
    ELSE (IF Head(w) > 127 THEN PercentBytes(Utf8(Head(w)))
          ELSE <<Head(w)>>) \o RefEscape(Tail(w))

\* the reference pipeline: trim, lowercase, spaces to underscores, then
\* percent-encode what is not ASCII
RefNormalize(w) == RefEscape(ReplaceSpaces(LowerStr(Strip(w))))

\* C6: word normalisation returns what the reference pipeline returns.
C6_MatchesReference ==
    stage # "input" => norm = RefNormalize(word)

\* C7: word normalisation is idempotent: normalising a normalised word
\* gives the same string.
C7_Idempotent ==
    stage = "reparsed" => norm2 = norm

\* "% É": a percent sign, a space and an uppercase non-ASCII letter
C7_Witness ==
    /\ stage = "reparsed"
    /\ word = <<37, 32, 201>>
    /\ norm # word
    /\ norm2 = norm

\* C8: thesaurus sends category "entries" with the normalised word and
\* exactly one more segment: "antonyms;synonyms" with neither flag,
\* "antonyms" with antonyms (with or without synonyms), "synonyms" with
\* synonyms alone.
C8_ThesaurusPath ==
    (call.op = "thesaurus" /\ call.exc # "CannotSendRequest") =>
        /\ call.sent
        /\ call.category = "entries"
        /\ Len(call.path) = 2
        /\ call.path[1] = Str(_parseword(call.input.word))
        /\ (~call.input.antonyms /\ ~call.input.synonyms) =>
               call.path[2] = "antonyms;synonyms"
        /\ (call.input.antonyms /\ ~call.input.synonyms) =>
               call.path[2] = "antonyms"
        /\ (~call.input.antonyms /\ call.input.synonyms) =>
               call.path[2] = "synonyms"
        /\ (call.input.antonyms /\ call.input.synonyms) =>
               call.path[2] = "antonyms"

C8_Witness ==
    /\ call.op = "thesaurus"
    /\ call.sent
    /\ call.input.antonyms
    /\ call.input.synonyms
    /\ call.path[2] = "antonyms"

\* the call failed with one of the four API errors on a kept-alive
\* connection
FailedKeptAlive(c) ==
    c.kind = "raise" /\ c.exc \in ApiErrors /\ c.keepalive

\* C9: after a call failed with an API error on a kept-alive connection its
\* response is not left unread on the connection, and the next operation
\* sends its own GET, gets its own response and ends as that response's
\* status says.
C9_FailedCallLeavesClientUsable ==
    [][/\ FailedKeptAlive(call') => _httpsconn'.response = "none"
       /\ (FailedKeptAlive(call) /\ call'.op \in ApiOps
           /\ call'.exc # "AttributeError") =>
              /\ call'.sent
              /\ call'.status # 0
              /\ (call'.status = 200 /\ Decodes(call'.body)) =>
                     call'.value = json_loads(call'.body)]_vars

\* what a setlang step may touch
SetlangFrame ==
    /\ call'.op = "setlang" =>
           /\ ~call'.sent
           /\ app_key' = app_key
           /\ app_id' = app_id
           /\ _base_url' = _base_url
           /\ _httpsconn' = _httpsconn
           /\ call'.kind = "raise" => lang' = lang
           /\ call'.kind = "return" => lang' = Str(call'.input.lang)
    /\ call'.op \notin {"setlang", "__init__"} => lang' = lang

====
